---- MODULE Spec2Model ----
(***************************************************************************)
(* The URL content cache (URLCache) and the URL fetcher of DocsManager     *)
(* (fetch_url_content, fetch_multiple_urls), services/docs_manager.py, and *)
(* the URL validator and the urls.json loader, services/url_loader.py, the *)
(* URL-content tool of server.py (buscar_conteudo_url) and the             *)
(* documentation search of DocsManager (search_documentation).             *)
(*                                                                         *)
(* Time is counted in ticks of the wall clock (datetime.now()); a text is  *)
(* a sequence of one-character strings; the cache is the OrderedDict as    *)
(* the sequence of its entries, oldest first.                              *)
(***************************************************************************)
EXTENDS Integers, Sequences, FiniteSets, TLC

\* ---------------------------------------------------------------- bounds
\* largest configured max_size (MCP_URL_CACHE_MAX_SIZE)
MaxCap == 2
\* the clock runs from 0 to MaxClock
MaxClock == 2
\* largest configured ttl, in ticks (MCP_URL_CACHE_TTL_HOURS)
MaxTtl == 2
\* fetch is called with max_length in 1..MaxLen
MaxLen == 1
\* fetch_multiple_urls is called with at most MaxBatch URLs
MaxBatch == 2
\* "tutoriais" and "urls" of urls.json hold at most MaxEntries entries each
MaxEntries == 2

\* ---------------------------------------------------------------- inputs
URLS == {"u1", "u2", "u3"}
\* by how much the clock advances between two reads of it inside one method
Drifts == {0, 1}
NoURL == "none"
Tasks == {"t1", "t2"}
\* contents handed to URLCache.set directly
Contents == {<<>>, <<"a">>}
\* the cleaned text of a retrieved page (after markup stripping)
Pages == {<<>>, <<"a">>, <<"b", "a">>}

\* ------------------------------------------------------------- constants
\* "... [truncado]"
TruncationMarker == <<".", ".", ".", " ", "[", "t", "r", "u", "n", "c", "a", "d", "o", "]">>
\* f"Erro ao buscar URL: {e.response.status_code}" for status 404
ErrHTTP == <<"E", "r", "r", "o", " ", "a", "o", " ", "b", "u", "s", "c", "a", "r", " ", "U", "R", "L", ":", " ", "4", "0", "4">>
\* f"Erro de conexão ao buscar URL: {str(e)}" with an empty message (a-tilde written a)
ErrRequest == <<"E", "r", "r", "o", " ", "d", "e", " ", "c", "o", "n", "e", "x", "a", "o", " ", "a", "o", " ", "b", "u", "s", "c", "a", "r", " ", "U", "R", "L", ":", " ">>
\* f"Erro ao processar URL: {str(e)}" with an empty message
ErrProcess == <<"E", "r", "r", "o", " ", "a", "o", " ", "p", "r", "o", "c", "e", "s", "s", "a", "r", " ", "U", "R", "L", ":", " ">>
\* the same for the KeyError of popitem: "Erro ao processar URL: 'dictionary is empty'"
ErrKeyError == <<"E", "r", "r", "o", " ", "a", "o", " ", "p", "r", "o", "c", "e", "s", "s", "a", "r", " ", "U", "R", "L", ":", " ", "'", "d", "i", "c", "t", "i", "o", "n", "a", "r", "y", " ", "i", "s", " ", "e", "m", "p", "t", "y", "'">>
\* f"Erro: {str(content)}" with an empty message
ErrGather == <<"E", "r", "r", "o", ":", " ">>
\* the exceptions the retrieval, the markup stripping and the truncation may raise
Exceptions == {"HTTPStatusError", "RequestError", "Exception"}

VARIABLES
    cache,      \* URLCache._cache: sequence of entries, least recently used first
    max_size,   \* URLCache.max_size
    ttl,        \* URLCache.ttl_hours, in ticks
    enabled,    \* DocsManager.url_cache is not None
    clock,      \* datetime.now()
    task,       \* the running fetch_url_content coroutines
    last,       \* the last call that returned: what it was given and what it returned
    fill,       \* history: the URLs set since the cache was empty, while only set was called
                \* on the cache, and by no fetch
    mru,        \* history: the URL last read by a successful get, while only new URLs were set,
                \* and the URLs stored at that get that have stayed in the cache since
    batch,      \* the running or last fetch_multiple_urls call: its coroutines and its result
    call        \* a call of a function of url_loader.py: its argument and what it returned

vars == <<cache, max_size, ttl, enabled, clock, task, last, fill, mru, batch, call>>

\* Optional[str]
Absent == [present |-> FALSE, text |-> <<>>]
Some(text) == [present |-> TRUE, text |-> text]

\* statistics that report a cache in use
StatsInUse == [total |-> 0, valid |-> 0, expired |-> 0, enabled |-> TRUE]
\* what get_cache_stats reports when url_cache is None
NoStats == [total |-> 0, valid |-> 0, expired |-> 0, enabled |-> FALSE]

Keys(c) == {c[i].url : i \in 1..Len(c)}
Range(c) == {c[i] : i \in 1..Len(c)}
IndexOf(c, url) == CHOOSE i \in 1..Len(c) : c[i].url = url
Entry(c, url) == c[IndexOf(c, url)]
Remove(c, url) == SelectSeq(c, LAMBDA e : e.url # url)
\* a get that leaves the entry where it is in the order
move_nowhere(c, url) == c
\* OrderedDict.move_to_end(url)
move_to_end(c, url) == Append(Remove(c, url), Entry(c, url))
\* s[:n]
Prefix(s, n) == SubSeq(s, 1, IF n < Len(s) THEN n ELSE Len(s))

\* a purge that also takes the entries expiring at this very tick
clean_expired_inclusive(c, now) == SelectSeq(c, LAMBDA e : ~(e.expires_at <= now))
\* URLCache._clean_expired with datetime.now() = now
clean_expired(c, now) == SelectSeq(c, LAMBDA e : ~(e.expires_at < now))

\* a get that reports an expired entry absent and leaves it in the cache
URLCache_get_keeps(c, url, now) ==
    IF url \notin Keys(c)
    THEN [cache |-> c, ret |-> Absent]
    ELSE IF now > Entry(c, url).expires_at
         THEN [cache |-> c, ret |-> Absent]
         ELSE [cache |-> move_to_end(c, url), ret |-> Some(Entry(c, url).content)]
\* URLCache.get with datetime.now() = now: the cache afterwards and the value returned
URLCache_get(c, url, now) ==
    IF url \notin Keys(c)
    THEN [cache |-> c, ret |-> Absent]
    ELSE IF now > Entry(c, url).expires_at
         THEN [cache |-> Remove(c, url), ret |-> Absent]
         ELSE [cache |-> move_to_end(c, url), ret |-> Some(Entry(c, url).content)]

\* popitem(last=True): the newest entry goes
evict_newest(c, cap) == IF Len(c) >= cap THEN SubSeq(c, 1, Len(c) - 1) ELSE c
\* an eviction that waits until the cache is over its capacity
evict_when_over(c, cap) == IF Len(c) > cap THEN Tail(c) ELSE c
\* the popitem(last=False) of URLCache.set, on a full cache
evict_oldest(c, cap) == IF Len(c) >= cap THEN Tail(c) ELSE c

\* the entry URLCache.set builds: n1 and n2 are its two reads of the clock
new_entry(url, content, n1, n2, t) ==
    [url |-> url, content |-> content, expires_at |-> n1 + t, cached_at |-> n2]

\* a write that is lost
store_nothing(c, e) == c
\* self._cache[url] = entry: an existing key keeps its place in the order
store(c, e) ==
    IF e.url \in Keys(c)
    THEN [i \in 1..Len(c) |-> IF c[i].url = e.url THEN e ELSE c[i]]
    ELSE Append(c, e)

\* URLCache.set; n0 is the clock read by _clean_expired, n1 and n2 the reads of set
URLCache_set(c, url, content, n0, n1, n2, cap, t) ==
    store(evict_oldest(clean_expired(c, n0), cap), new_entry(url, content, n1, n2, t))

\* URLCache.get_stats; n0 is the clock read by _clean_expired, n1 the read of get_stats
URLCache_get_stats(c, n0, n1) ==
    LET c1 == clean_expired(c, n0)
        valid == Cardinality({i \in 1..Len(c1) : c1[i].expires_at > n1})
    IN [cache |-> c1,
        stats |-> [total |-> Len(c1), valid |-> valid,
                   expired |-> Len(c1) - valid, enabled |-> TRUE]]

\* popitem(last=False) raises KeyError on an empty OrderedDict: set raises when
\* nothing is left after the purge and max_size is not positive
set_raises(c, n0, cap) ==
    LET c1 == clean_expired(c, n0) IN Len(c1) >= cap /\ Len(c1) = 0

\* the text of the diagnostic the except clauses build
diagnostic(exc) ==
    CASE exc = "HTTPStatusError" -> ErrHTTP
      [] exc = "RequestError" -> ErrRequest
      [] exc = "KeyError" -> ErrKeyError
      [] OTHER -> ErrProcess
\* except clauses for httpx.HTTPStatusError and httpx.RequestError only
handle_httpx_only(exc) ==
    IF exc \in {"HTTPStatusError", "RequestError"}
    THEN [raised |-> FALSE, ret |-> Some(diagnostic(exc))]
    ELSE [raised |-> TRUE, ret |-> Absent]
\* the except clauses of fetch_url_content: the last one is `except Exception`
handle(exc) == [raised |-> FALSE, ret |-> Some(diagnostic(exc))]

\* the truncation of fetch_url_content
truncate(text, max_length) ==
    IF Len(text) > max_length
    THEN Prefix(text, max_length) \o TruncationMarker
    ELSE text

\* the value fetch_url_content returns on a cache hit
cache_hit_value(content, max_length) ==
    IF Len(content) > max_length THEN Prefix(content, max_length) ELSE content

\* `if cached_content:` in fetch_url_content
is_hit(got) == got.present /\ got.text # <<>>

IdleTask == [pc |-> "idle", url |-> NoURL, max_length |-> 0]
\* dropped: the URL and expiry of the entries the call removed from the cache
\* and did not put back
\* max_length: the max_length of a fetch that returned after a retrieval
\* raised: the call ended with an exception instead of a return value
NoCall == [op |-> "init", url |-> NoURL, max_length |-> 0, ret |-> Absent,
           raised |-> FALSE, stats |-> NoStats, dropped |-> {}]
\* the entries of c whose URL is no longer a key of d
Dropped(c, d) ==
    {[url |-> c[i].url, expires_at |-> c[i].expires_at] :
        i \in {j \in 1..Len(c) : c[j].url \notin Keys(d)}}
\* no fetch_multiple_urls call yet
NoBatch == [pc |-> "idle", urls |-> <<>>, max_length |-> 0, co |-> <<>>,
            order |-> <<>>, results |-> [u \in {} |-> <<>>]]
\* no call of url_loader.py
NotCalled == [fn |-> "none"]
NoMru == [url |-> NoURL, evicted |-> FALSE, older |-> {}]
NoFill == [ok |-> FALSE, urls |-> <<>>]

Init ==
    /\ cache = <<>>
    /\ max_size \in 1..MaxCap
    /\ ttl \in 1..MaxTtl
    /\ enabled \in BOOLEAN
    /\ clock = 0
    /\ task = [t \in Tasks |-> IdleTask]
    /\ last = NoCall
    /\ fill = [ok |-> TRUE, urls |-> <<>>]
    /\ mru = NoMru
    /\ batch = NoBatch
    /\ call = NotCalled

\* time passes between calls
Tick ==
    /\ clock < MaxClock
    /\ clock' = clock + 1
    /\ UNCHANGED <<cache, max_size, ttl, enabled, task, last, fill, mru, batch, call>>

\* a caller of url_cache.get(url) (server.py, buscar_conteudo_url)
Get(url) ==
    LET r == URLCache_get(cache, url, clock) IN
    /\ enabled
    /\ cache' = r.cache
    /\ last' = [NoCall EXCEPT !.op = "get", !.url = url, !.ret = r.ret,
                              !.dropped = Dropped(cache, r.cache)]
    /\ fill' = NoFill
    /\ mru' = IF r.ret.present
              THEN [url |-> url, evicted |-> FALSE, older |-> Keys(cache) \ {url}]
              ELSE NoMru
    /\ UNCHANGED <<max_size, ttl, enabled, clock, task, batch, call>>

\* url_cache.set(url, content) with its three reads of the clock; when popitem
\* raises, the purge has been done and the clock has been read once
DoSet(url, content, n0, n1, n2) ==
    IF set_raises(cache, n0, max_size)
    THEN /\ cache' = clean_expired(cache, n0)
         /\ clock' = n0
    ELSE /\ cache' = URLCache_set(cache, url, content, n0, n1, n2, max_size, ttl)
         /\ clock' = n2

\* what a direct call of set does to the histories
SetHistory(url, n0) ==
    LET isNew == url \notin Keys(cache)
        \* no entry had expired when the call began
        allFresh == \A e \in Range(cache) : ~(e.expires_at < n0)
        \* an unexpired entry was removed
        evicts == \E e \in Dropped(cache, cache') : ~(e.expires_at < n0)
    IN
    /\ fill' = IF fill.ok /\ isNew /\ allFresh /\ Len(fill.urls) <= max_size
               THEN [ok |-> TRUE, urls |-> Append(fill.urls, url)]
               ELSE NoFill
    /\ mru' = IF mru.url # NoURL /\ ~mru.evicted /\ isNew /\ url # mru.url
              THEN [mru EXCEPT !.evicted = evicts, !.older = @ \cap Keys(cache')]
              ELSE NoMru

\* The histories fill and mru follow the calls made on a URLCache directly;
\* a call made through the DocsManager ends them.
NoHistory == fill' = NoFill /\ mru' = NoMru

Set(url, content) ==
    \E d1, d2 \in Drifts :
        /\ enabled
        /\ clock + d1 + d2 <= MaxClock
        /\ DoSet(url, content, clock, clock + d1, clock + d1 + d2)
        /\ IF set_raises(cache, clock, max_size) THEN NoHistory ELSE SetHistory(url, clock)
        /\ last' = [NoCall EXCEPT !.op = "set", !.url = url,
                                  !.raised = set_raises(cache, clock, max_size),
                                  !.dropped = Dropped(cache, cache')]
        /\ UNCHANGED <<max_size, ttl, enabled, task, batch, call>>

\* URLCache.clear
Clear ==
    /\ enabled
    /\ cache' = <<>>
    /\ last' = [NoCall EXCEPT !.op = "clear", !.dropped = Dropped(cache, <<>>)]
    /\ fill' = [ok |-> TRUE, urls |-> <<>>]
    /\ mru' = NoMru
    /\ UNCHANGED <<max_size, ttl, enabled, clock, task, batch, call>>

\* URLCache.get_stats
Stats ==
    \E d \in Drifts :
        LET r == URLCache_get_stats(cache, clock, clock + d) IN
        /\ enabled
        /\ clock + d <= MaxClock
        /\ cache' = r.cache
        /\ clock' = clock + d
        /\ last' = [NoCall EXCEPT !.op = "stats", !.stats = r.stats,
                                  !.dropped = Dropped(cache, r.cache)]
        /\ fill' = IF r.cache = cache THEN fill ELSE NoFill
        /\ mru' = IF mru.evicted THEN NoMru ELSE [mru EXCEPT !.older = @ \cap Keys(r.cache)]
        /\ UNCHANGED <<max_size, ttl, enabled, task, batch, call>>

\* url_cache.get(url) as buscar_conteudo_url calls it before fetch_url_content
cache_probe(url) ==
    LET r == URLCache_get(cache, url, clock) IN
    /\ enabled
    /\ cache' = r.cache
    /\ last' = [NoCall EXCEPT !.op = "get", !.url = url, !.ret = r.ret,
                              !.dropped = Dropped(cache, r.cache)]
    /\ NoHistory
    /\ UNCHANGED <<max_size, ttl, enabled, clock, task, batch, call>>

\* DocsManager.clear_cache
clear_cache ==
    /\ cache' = IF enabled THEN <<>> ELSE cache
    /\ last' = [NoCall EXCEPT !.op = "clear", !.dropped = Dropped(cache, cache')]
    /\ NoHistory
    /\ UNCHANGED <<max_size, ttl, enabled, clock, task, batch, call>>

\* DocsManager.get_cache_stats
get_cache_stats ==
    \E d \in Drifts :
        LET r == IF enabled THEN URLCache_get_stats(cache, clock, clock + d)
                            ELSE [cache |-> cache, stats |-> NoStats]
        IN
        /\ clock + d <= MaxClock
        /\ cache' = r.cache
        /\ clock' = IF enabled THEN clock + d ELSE clock
        /\ last' = [NoCall EXCEPT !.op = "stats", !.stats = r.stats,
                                  !.dropped = Dropped(cache, r.cache)]
        /\ NoHistory
        /\ UNCHANGED <<max_size, ttl, enabled, task, batch, call>>

\* fetch_url_content(url, max_length) up to its return on a cache hit or its
\* suspension at `await self.http_client.get(url)`
FetchStart(t, url, max_length) ==
    LET r == IF enabled THEN URLCache_get(cache, url, clock)
                        ELSE [cache |-> cache, ret |-> Absent]
    IN
    /\ task[t].pc = "idle"
    /\ cache' = r.cache
    /\ NoHistory
    /\ IF is_hit(r.ret)
       THEN /\ last' = [NoCall EXCEPT !.op = "fetch_hit", !.url = url,
                                      !.ret = Some(cache_hit_value(r.ret.text, max_length)),
                                      !.dropped = Dropped(cache, r.cache)]
            /\ task' = task
       ELSE /\ last' = [NoCall EXCEPT !.op = "fetch_await", !.url = url,
                                      !.dropped = Dropped(cache, r.cache)]
            /\ task' = [task EXCEPT ![t] = [pc |-> "awaiting", url |-> url,
                                            max_length |-> max_length]]
    /\ UNCHANGED <<max_size, ttl, enabled, clock, batch, call>>

\* the retrieval succeeded with a page whose cleaned text is page: truncate,
\* store, return; a KeyError of the cache write is caught like any exception
FetchOk(t, page) ==
    LET url == task[t].url
        cleaned_text == truncate(page, task[t].max_length)
        raises == enabled /\ set_raises(cache, clock, max_size)
        r == IF raises THEN handle("KeyError")
                       ELSE [raised |-> FALSE, ret |-> Some(cleaned_text)]
    IN
    /\ task[t].pc = "awaiting"
    /\ \/ /\ enabled
          /\ \E d1, d2 \in Drifts :
                /\ clock + d1 + d2 <= MaxClock
                /\ DoSet(url, cleaned_text, clock, clock + d1, clock + d1 + d2)
       \/ /\ ~enabled
          /\ UNCHANGED <<cache, clock>>
    /\ NoHistory
    /\ last' = [NoCall EXCEPT !.op = IF raises THEN "fetch_failed" ELSE "fetch_ok",
                              !.url = url,
                              !.max_length = task[t].max_length,
                              !.raised = r.raised, !.ret = r.ret,
                              !.dropped = Dropped(cache, cache')]
    /\ task' = [task EXCEPT ![t] = IdleTask]
    /\ UNCHANGED <<max_size, ttl, enabled, batch, call>>

\* the retrieval, the markup stripping or the truncation raised exc: the
\* except clauses turn it into the value returned
FetchFail(t, exc) ==
    /\ task[t].pc = "awaiting"
    /\ last' = [NoCall EXCEPT !.op = "fetch_failed", !.url = task[t].url,
                              !.raised = handle(exc).raised, !.ret = handle(exc).ret]
    /\ task' = [task EXCEPT ![t] = IdleTask]
    /\ NoHistory
    /\ UNCHANGED <<cache, max_size, ttl, enabled, clock, batch, call>>

\* the DocsManager under concurrent tool calls
Next ==
    \/ Tick
    \/ \E url \in URLS : cache_probe(url)
    \/ \E t \in Tasks, url \in URLS, max_length \in 1..MaxLen : FetchStart(t, url, max_length)
    \/ \E t \in Tasks, page \in Pages : FetchOk(t, page)
    \/ \E t \in Tasks, exc \in Exceptions : FetchFail(t, exc)
    \/ clear_cache
    \/ get_cache_stats
Spec == Init /\ [][Next]_vars

\* the URLCache object under any sequence of calls
URLCacheInit == Init /\ enabled
URLCacheNext ==
    \/ Tick
    \/ \E url \in URLS : Get(url)
    \/ \E url \in URLS, content \in Contents : Set(url, content)
    \/ Clear
    \/ Stats
URLCacheSpec == URLCacheInit /\ [][URLCacheNext]_vars

\* URLCache(ttl_hours, max_size) stores the values it is given, whatever they
\* are: the cache and the fetcher under any configuration, valid or not
AnyConfigInit ==
    /\ cache = <<>>
    /\ max_size \in 0..MaxCap
    /\ ttl \in 0..MaxTtl
    /\ enabled = TRUE
    /\ clock = 0
    /\ task = [t \in Tasks |-> IdleTask]
    /\ last = NoCall
    /\ fill = NoFill
    /\ mru = NoMru
    /\ batch = NoBatch
    /\ call = NotCalled
\* one fetch at a time, with direct calls of get and set before, during and after it
AnyConfigNext ==
    \/ Tick
    \/ \E url \in URLS : cache_probe(url)
    \/ \E url \in URLS, content \in Contents : Set(url, content)
    \/ \E url \in URLS, max_length \in 1..MaxLen : FetchStart("t1", url, max_length)
    \/ \E page \in Pages : FetchOk("t1", page)
    \/ \E exc \in Exceptions : FetchFail("t1", exc)
AnyConfigSpec == AnyConfigInit /\ [][AnyConfigNext]_vars

\* a URLCache with room for one entry more than MaxCap, so that a set can find
\* two entries in a cache that is not full
LargeCacheInit ==
    /\ cache = <<>>
    /\ max_size = MaxCap + 1
    /\ ttl \in 1..MaxTtl
    /\ enabled = TRUE
    /\ clock = 0
    /\ task = [t \in Tasks |-> IdleTask]
    /\ last = NoCall
    /\ fill = [ok |-> TRUE, urls |-> <<>>]
    /\ mru = NoMru
    /\ batch = NoBatch
    /\ call = NotCalled
LargeCacheSpec == LargeCacheInit /\ [][URLCacheNext]_vars

\* fetch_url_content(url, max_length) whose retrieval raises exc, from its
\* cache check to its return, with no other call running in between
FailedFetch(t, url, max_length, exc) ==
    LET r == IF enabled THEN URLCache_get(cache, url, clock)
                        ELSE [cache |-> cache, ret |-> Absent]
    IN
    /\ task[t].pc = "idle"
    /\ ~is_hit(r.ret)
    /\ cache' = r.cache
    /\ last' = [NoCall EXCEPT !.op = "fetch_failed", !.url = url,
                              !.raised = handle(exc).raised, !.ret = handle(exc).ret,
                              !.dropped = Dropped(cache, r.cache)]
    /\ NoHistory
    /\ UNCHANGED <<max_size, ttl, enabled, clock, task, batch, call>>

\* the fetcher called by one caller, one call after the other
SequentialNext ==
    \/ Tick
    \/ \E url \in URLS, max_length \in 1..MaxLen : FetchStart("t1", url, max_length)
    \/ \E page \in Pages : FetchOk("t1", page)
    \/ \E url \in URLS, max_length \in 1..MaxLen, exc \in Exceptions :
          FailedFetch("t1", url, max_length, exc)
SequentialSpec == Init /\ [][SequentialNext]_vars

\* ------------------------------------------------- fetch_multiple_urls
\* the lists of at most n elements of S
Lists(S, n) == UNION {[1..k -> S] : k \in 0..n}

\* a coroutine fetch_url_content(url, max_length) of the batch, not started yet.
\* kind and got: what the coroutine obtained, "hit" with the cached text, "page"
\* with the cleaned text of the page, or the name of the exception raised;
\* raised and content: how it ended
NewCo == [pc |-> "created", kind |-> "none", got |-> <<>>, raised |-> FALSE,
          content |-> <<>>]

\* the results in the order in which the coroutines finished
contents_as_completed(b) ==
    [i \in 1..Len(b.urls) |-> [raised |-> b.co[b.order[i]].raised,
                               text |-> b.co[b.order[i]].content]]
\* what asyncio.gather(*tasks, return_exceptions=True) returns: the result of
\* each coroutine, in the order of tasks
contents(b) ==
    [i \in 1..Len(b.urls) |-> [raised |-> b.co[i].raised, text |-> b.co[i].content]]

\* the loop over zip(urls, contents) that fills results: a later position
\* overwrites an earlier one of the same URL
zip_results(urls, cs) ==
    [u \in Range(urls) |->
        LET i == CHOOSE k \in 1..Len(urls) :
                    urls[k] = u /\ \A j \in (k + 1)..Len(urls) : urls[j] # u
        IN IF cs[i].raised THEN ErrGather ELSE cs[i].text]

\* fetch_multiple_urls(urls, max_length) up to its await of asyncio.gather
fetch_multiple_urls(urls, max_length) ==
    /\ batch.pc # "gathering"
    /\ batch' = [pc |-> "gathering", urls |-> urls, max_length |-> max_length,
                 co |-> [i \in 1..Len(urls) |-> NewCo], order |-> <<>>,
                 results |-> [u \in {} |-> <<>>]]
    /\ UNCHANGED <<cache, max_size, ttl, enabled, clock, task, last, fill, mru, call>>

\* the event loop starts the i-th coroutine, after those before it: it runs
\* fetch_url_content to its return on a cache hit or to its await of the retrieval
GatherStart(i) ==
    /\ batch.pc = "gathering"
    /\ i \in 1..Len(batch.urls)
    /\ batch.co[i].pc = "created"
    /\ \A j \in 1..(i - 1) : batch.co[j].pc # "created"
    /\ LET url == batch.urls[i]
           r == IF enabled THEN URLCache_get(cache, url, clock)
                           ELSE [cache |-> cache, ret |-> Absent]
       IN
       /\ cache' = r.cache
       /\ batch' = IF is_hit(r.ret)
                    THEN [batch EXCEPT
                            !.co[i] = [pc |-> "done", kind |-> "hit", got |-> r.ret.text,
                                       raised |-> FALSE,
                                       content |-> cache_hit_value(r.ret.text, batch.max_length)],
                            !.order = Append(@, i)]
                    ELSE [batch EXCEPT !.co[i].pc = "awaiting"]
    /\ NoHistory
    /\ UNCHANGED <<max_size, ttl, enabled, clock, task, last, call>>

\* the retrieval of the i-th coroutine succeeded: truncate, store, return
GatherOk(i, page) ==
    /\ batch.pc = "gathering"
    /\ i \in 1..Len(batch.urls)
    /\ batch.co[i].pc = "awaiting"
    /\ LET cleaned_text == truncate(page, batch.max_length)
           raises == enabled /\ set_raises(cache, clock, max_size)
           r == IF raises THEN handle("KeyError")
                          ELSE [raised |-> FALSE, ret |-> Some(cleaned_text)]
       IN
       /\ \/ /\ enabled
             /\ \E d1, d2 \in Drifts :
                   /\ clock + d1 + d2 <= MaxClock
                   /\ DoSet(batch.urls[i], cleaned_text, clock, clock + d1, clock + d1 + d2)
          \/ /\ ~enabled
             /\ UNCHANGED <<cache, clock>>
       /\ batch' = [batch EXCEPT
                      !.co[i] = [pc |-> "done", kind |-> "page", got |-> page,
                                 raised |-> r.raised, content |-> r.ret.text],
                      !.order = Append(@, i)]
    /\ NoHistory
    /\ UNCHANGED <<max_size, ttl, enabled, task, last, call>>

\* the retrieval of the i-th coroutine raised exc
GatherFail(i, exc) ==
    /\ batch.pc = "gathering"
    /\ i \in 1..Len(batch.urls)
    /\ batch.co[i].pc = "awaiting"
    /\ batch' = [batch EXCEPT
                   !.co[i] = [pc |-> "done", kind |-> exc, got |-> <<>>,
                              raised |-> handle(exc).raised,
                              content |-> handle(exc).ret.text],
                   !.order = Append(@, i)]
    /\ UNCHANGED <<cache, max_size, ttl, enabled, clock, task, last, fill, mru, call>>

\* gather returns as soon as one coroutine is done
any_done(b) == \E i \in 1..Len(b.urls) : b.co[i].pc = "done"
\* gather returns when every coroutine is done
all_done(b) == \A i \in 1..Len(b.urls) : b.co[i].pc = "done"

\* asyncio.gather has returned: the results are filled in and returned
GatherReturn ==
    /\ batch.pc = "gathering"
    /\ all_done(batch)
    /\ batch' = [batch EXCEPT !.pc = "returned",
                              !.results = zip_results(batch.urls, contents(batch))]
    /\ UNCHANGED <<cache, max_size, ttl, enabled, clock, task, last, fill, mru, call>>

\* one fetch_multiple_urls call after the other, on one cache
FetchManyNext ==
    \/ Tick
    \/ \E urls \in Lists(URLS, MaxBatch), max_length \in 1..MaxLen :
          fetch_multiple_urls(urls, max_length)
    \/ \E i \in 1..MaxBatch : GatherStart(i)
    \/ \E i \in 1..MaxBatch, page \in Pages : GatherOk(i, page)
    \/ \E i \in 1..MaxBatch, exc \in Exceptions : GatherFail(i, exc)
    \/ GatherReturn
FetchManySpec == Init /\ [][FetchManyNext]_vars

\* the i-th coroutine's retrieval completes, one way or the other
GatherDone(i) ==
    \/ \E page \in Pages : GatherOk(i, page)
    \/ \E exc \in Exceptions : GatherFail(i, exc)
\* The event loop runs every coroutine that is ready to run (a created one, and
\* fetch_multiple_urls itself once gather is complete), and every retrieval
\* completes: with success, with an error, or with the timeout of the client.
GatherFairness ==
    /\ \A i \in 1..MaxBatch : WF_vars(GatherStart(i)) /\ WF_vars(GatherDone(i))
    /\ WF_vars(GatherReturn)
\* the first fetch_multiple_urls call of a DocsManager
first_fetch_multiple_urls(urls, max_length) ==
    batch.pc = "idle" /\ fetch_multiple_urls(urls, max_length)
FirstFetchManyNext ==
    \/ Tick
    \/ \E urls \in Lists(URLS, MaxBatch), max_length \in 1..MaxLen :
          first_fetch_multiple_urls(urls, max_length)
    \/ \E i \in 1..MaxBatch : GatherStart(i)
    \/ \E i \in 1..MaxBatch, page \in Pages : GatherOk(i, page)
    \/ \E i \in 1..MaxBatch, exc \in Exceptions : GatherFail(i, exc)
    \/ GatherReturn
FairFetchManySpec == Init /\ [][FirstFetchManyNext]_vars /\ GatherFairness

\* ---------------------------------------------------------- url_loader.py
\* A Python value, as json.load builds it: a string Str(text), a list
\* List(items), a dict (a record with kind "dict" and one field per key, Missing
\* for a key that is absent), or a value of another type.
Str(text) == [kind |-> "str", text |-> text]
List(items) == [kind |-> "list", items |-> items]
Number == [kind |-> "int"]
Null == [kind |-> "null"]
Missing == [kind |-> "missing"]

Digits == {"0", "1", "2", "3", "4", "5", "6", "7", "8", "9"}
Uppers == <<"A", "B", "C", "D", "E", "F", "G", "H", "I", "J", "K", "L", "M", "N", "O", "P", "Q", "R", "S", "T", "U", "V", "W", "X", "Y", "Z">>
Lowers == <<"a", "b", "c", "d", "e", "f", "g", "h", "i", "j", "k", "l", "m", "n", "o", "p", "q", "r", "s", "t", "u", "v", "w", "x", "y", "z">>
Letters == Range(Lowers)
\* the whitespace characters of the inputs
Whitespace == {" ", "\t"}

\* re.IGNORECASE: the pattern is matched on the text in lower case
ToLower(ch) ==
    IF \E i \in 1..Len(Uppers) : Uppers[i] = ch
    THEN Lowers[CHOOSE i \in 1..Len(Uppers) : Uppers[i] = ch]
    ELSE ch
lower(s) == [i \in 1..Len(s) |-> ToLower(s[i])]

\* str.strip()
strip(s) ==
    LET keep == {i \in 1..Len(s) : s[i] \notin Whitespace} IN
    IF keep = {} THEN <<>>
    ELSE SubSeq(s, CHOOSE i \in keep : \A j \in keep : i <= j,
                   CHOOSE i \in keep : \A j \in keep : i >= j)

\* The pattern is matched from the left on sets of positions: P is the set of
\* positions (index of the next character) reached so far in t.
\* the literal w
lit(t, P, w) ==
    {p + Len(w) : p \in {q \in P : /\ q + Len(w) - 1 <= Len(t)
                                  /\ SubSeq(t, q, q + Len(w) - 1) = w}}
\* [S]{lo,hi}
run(t, P, S, lo, hi) ==
    {q \in 1..(Len(t) + 1) :
        \E p \in P : (q - p) \in lo..hi /\ \A k \in p..(q - 1) : t[k] \in S}

\* any scheme of letters before ://
scheme_any(t) == lit(t, run(t, {1}, Letters, 1, Len(t)), <<":", "/", "/">>)
\* ^https?://
scheme(t) ==
    LET http == lit(t, {1}, <<"h", "t", "t", "p">>) IN
    lit(t, http \cup lit(t, http, <<"s">>), <<":", "/", "/">>)

\* [A-Z0-9](?:[A-Z0-9-]{0,61}[A-Z0-9])?\.
label(t, P) ==
    LET first == run(t, P, Letters \cup Digits, 1, 1)
        more == run(t, run(t, first, Letters \cup Digits \cup {"-"}, 0, 61),
                    Letters \cup Digits, 1, 1)
    IN lit(t, first \cup more, <<".">>)
\* (?:label)+
RECURSIVE labels(_, _)
labels(t, P) == IF P = {} THEN {} ELSE label(t, P) \cup labels(t, label(t, P))
\* (?:label)+[A-Z]{2,6}\.?
domain(t, P) ==
    LET tld == run(t, labels(t, P), Letters, 2, 6) IN tld \cup lit(t, tld, <<".">>)
\* \d{1,3}\.\d{1,3}\.\d{1,3}\.\d{1,3}
ipv4(t, P) ==
    LET d(Q) == run(t, Q, Digits, 1, 3)
        dot(Q) == lit(t, Q, <<".">>)
    IN d(dot(d(dot(d(dot(d(P)))))))
\* (?:domain|localhost|ipv4)
host(t, P) ==
    domain(t, P) \cup lit(t, P, <<"l", "o", "c", "a", "l", "h", "o", "s", "t">>)
                 \cup ipv4(t, P)
\* (?::\d+)?
port(t, P) == P \cup run(t, lit(t, P, <<":">>), Digits, 1, Len(t))
\* (?:/?|[/?]\S+)$ from position p (the text is stripped: it does not end in a
\* newline, before which $ matches too)
path(t, p) ==
    \/ p = Len(t) + 1
    \/ p = Len(t) /\ t[p] = "/"
    \/ /\ p < Len(t)
       /\ t[p] \in {"/", "?"}
       /\ \A k \in (p + 1)..Len(t) : t[k] \notin Whitespace
\* url_pattern.match(text)
url_pattern(text) ==
    LET t == lower(text) IN \E p \in port(t, host(t, scheme(t))) : path(t, p)

\* a validator that accepts every string
accepts_any_string(url) == url.kind = "str"
\* validate_url(url), url any Python value
validate_url(url) ==
    IF url.kind # "str" \/ url.text = <<>>
    THEN FALSE
    ELSE url_pattern(strip(url.text))

\* the candidates handed to validate_url: scheme, host, port and path put together
Schemes == {<<"h", "t", "t", "p", ":", "/", "/">>,
            <<"h", "t", "t", "p", "s", ":", "/", "/">>,
            <<"H", "T", "T", "P", "S", ":", "/", "/">>,
            <<"f", "t", "p", ":", "/", "/">>,
            <<>>,
            <<"h", "t", "t", "p", ":", "/">>}
Hosts == {<<"e", "x", "a", "m", "p", "l", "e", ".", "c", "o", "m">>,
          <<"l", "o", "c", "a", "l", "h", "o", "s", "t">>,
          <<"1", "9", "2", ".", "1", "6", "8", ".", "1", ".", "1">>,
          <<"x", ".", "c", "o", "m">>,
          <<"n", "o", "t", " ", "a", " ", "u", "r", "l">>,
          <<"a", ".", "b", "-", "c", ".", "i", "o">>,
          <<"-", "a", ".", "c", "o", "m">>,
          <<"a", ".", ".", "c", "o", "m">>,
          <<"1", ".", "2", ".", "3">>,
          <<"e", "x", "a", "m", "p", "l", "e", ".", "c">>,
          <<"e", "x", "a", "m", "p", "l", "e", ".", "a", "b", "c", "d", "e", "f", "g">>,
          <<"e", "x", "a", "m", "p", "l", "e", ".", "c", "o", "m", ".">>}
Ports == {<<>>,
          <<":", "8", "0", "8", "0">>,
          <<":">>,
          <<":", "8", "0", "a">>}
Paths == {<<>>,
          <<"/">>,
          <<"/", "p", "a", "t", "h">>,
          <<"?", "q", "=", "1">>,
          <<"/", "a", " ", "b">>,
          <<"#", "f", "r", "a", "g">>}
Javascript == <<"j", "a", "v", "a", "s", "c", "r", "i", "p", "t", ":", "a", "l", "e", "r", "t", "(", "1", ")">>
Candidates ==
    {Str(a \o b \o c \o d) : a \in Schemes, b \in Hosts, c \in Ports, d \in Paths}
        \cup {Str(<<>>), Str(Javascript), Str(<<" ">>), Str(<<" ", "h", "t", "t", "p", "s", ":", "/", "/", "e", "x", "a", "m", "p", "l", "e", ".", "c", "o", "m", " ">>),
              Number, Null, List(<<>>), List(<<Str(<<"h", "t", "t", "p", "s", ":", "/", "/", "e", "x", "a", "m", "p", "l", "e", ".", "c", "o", "m">>)>>)}

\* the urls.json at json_path: absent, unreadable, not well-formed JSON, or
\* the JSON text of value
NoFile == [state |-> "missing", value |-> Null]
Unreadable == [state |-> "unreadable", value |-> Null]
Malformed == [state |-> "malformed", value |-> Null]
Json(value) == [state |-> "json", value |-> value]

\* {"tutoriais": [], "urls": []}
default_structure == [tutoriais |-> <<>>, urls |-> <<>>]

\* tutorial.get(key, default)
dict_get(value, default) == IF value.kind = "missing" THEN default ELSE value
\* a topicos that is not a list becomes []
topicos_list(value) == IF value.kind = "list" THEN value ELSE List(<<>>)

\* the dict built for a tutorial that is kept ("Sem titulo": i-acute written i)
tutorial_valid(tutorial) ==
    [titulo |-> dict_get(tutorial.titulo, Str(<<"S", "e", "m", " ", "t", "i", "t", "u", "l", "o">>)),
     url |-> dict_get(tutorial.url, Str(<<>>)),
     categoria |-> dict_get(tutorial.categoria, Str(<<>>)),
     topicos |-> topicos_list(dict_get(tutorial.topicos, List(<<>>)))]
\* the dict built for a URL item that is kept
url_valid(url_item) ==
    [url |-> dict_get(url_item.url, Str(<<>>)),
     descricao |-> dict_get(url_item.descricao, Str(<<>>)),
     categoria |-> dict_get(url_item.categoria, Str(<<>>)),
     topicos |-> topicos_list(dict_get(url_item.topicos, List(<<>>)))]

\* `"url" not in item or not validate_url(item.get("url", ""))`, negated
has_valid_url(item) ==
    ~(item.url.kind = "missing" \/ ~validate_url(dict_get(item.url, Str(<<>>))))

\* the loop over data["tutoriais"]
RECURSIVE valid_tutoriais(_)
valid_tutoriais(items) ==
    IF items = <<>> THEN <<>>
    ELSE LET tutorial == Head(items) IN
         IF tutorial.kind # "dict" THEN valid_tutoriais(Tail(items))
         ELSE IF ~has_valid_url(tutorial) THEN valid_tutoriais(Tail(items))
         ELSE <<tutorial_valid(tutorial)>> \o valid_tutoriais(Tail(items))
\* the loop over data["urls"]
RECURSIVE valid_urls(_)
valid_urls(items) ==
    IF items = <<>> THEN <<>>
    ELSE LET url_item == Head(items) IN
         IF url_item.kind # "dict" THEN valid_urls(Tail(items))
         ELSE IF ~has_valid_url(url_item) THEN valid_urls(Tail(items))
         ELSE <<url_valid(url_item)>> \o valid_urls(Tail(items))

\* a missing key, or a value that is not a list, becomes []
as_list(value) == IF value.kind = "list" THEN value.items ELSE <<>>

\* a loader without except clauses
reraise(exc) == [raised |-> TRUE, data |-> default_structure]
\* `except json.JSONDecodeError` and `except Exception`: the default is returned
except_default(exc) == [raised |-> FALSE, data |-> default_structure]

\* load_urls_from_json(json_path), file being what is at json_path
load_urls_from_json(file) ==
    IF file.state = "missing" THEN [raised |-> FALSE, data |-> default_structure]
    ELSE IF file.state = "unreadable" THEN except_default("OSError")
    ELSE IF file.state = "malformed" THEN except_default("JSONDecodeError")
    ELSE IF file.value.kind # "dict" THEN [raised |-> FALSE, data |-> default_structure]
    ELSE [raised |-> FALSE,
          data |-> [tutoriais |-> valid_tutoriais(as_list(file.value.tutoriais)),
                    urls |-> valid_urls(as_list(file.value.urls))]]

\* an entry of "tutoriais" or "urls"
Item(titulo, url, descricao, categoria, topicos) ==
    [kind |-> "dict", titulo |-> titulo, url |-> url, descricao |-> descricao,
     categoria |-> categoria, topicos |-> topicos]
Good == Str(<<"h", "t", "t", "p", "s", ":", "/", "/", "e", "x", "a", "m", "p", "l", "e", ".", "c", "o", "m">>)
Local == Str(<<"h", "t", "t", "p", ":", "/", "/", "l", "o", "c", "a", "l", "h", "o", "s", "t", ":", "8", "0", "8", "0", "/", "p", "a", "t", "h">>)
Title == Str(<<"T">>)
Entries ==
    {Str(<<"x">>),
     Item(Title, Good, Str(<<"d">>), Str(<<"c">>), List(<<Str(<<"t">>)>>)),
     Item(Missing, Good, Missing, Missing, Missing),
     Item(Title, Str(Javascript), Missing, Missing, Missing),
     Item(Title, Missing, Missing, Missing, Missing),
     Item(Missing, Local, Missing, Missing, Str(<<"t">>)),
     Item(Missing, Number, Missing, Missing, Missing)}
\* the value of a top-level key: absent, not a list, or a list of at most n
\* entries; the two loops of the loader do not depend on each other, so one
\* key holds up to MaxEntries entries while the other holds at most one
KeyValues(n) == {Missing, Str(<<"x">>)} \cup {List(l) : l \in Lists(Entries, n)}
Files ==
    {NoFile, Unreadable, Malformed, Json(List(<<>>)), Json(Str(<<"x">>)), Json(Null),
     Json(Number)}
        \cup {Json([kind |-> "dict", tutoriais |-> t, urls |-> u]) :
                t \in KeyValues(MaxEntries), u \in KeyValues(1)}
        \cup {Json([kind |-> "dict", tutoriais |-> t, urls |-> u]) :
                t \in KeyValues(1), u \in KeyValues(MaxEntries)}

\* the part of the state the functions of url_loader.py do not touch
NoManager ==
    /\ cache = <<>>
    /\ max_size = 1
    /\ ttl = 1
    /\ enabled = FALSE
    /\ clock = 0
    /\ task = [t \in Tasks |-> IdleTask]
    /\ last = NoCall
    /\ fill = NoFill
    /\ mru = NoMru
    /\ batch = NoBatch

\* validate_url is called on a candidate
ValidatorInit ==
    /\ NoManager
    /\ call \in {[fn |-> "validate_url", arg |-> url, done |-> FALSE, ret |-> FALSE] :
                    url \in Candidates}
validate ==
    /\ call.fn = "validate_url" /\ ~call.done
    /\ call' = [call EXCEPT !.done = TRUE, !.ret = validate_url(call.arg)]
    /\ UNCHANGED <<cache, max_size, ttl, enabled, clock, task, last, fill, mru, batch>>
ValidatorNext == validate
ValidatorSpec == ValidatorInit /\ [][ValidatorNext]_vars

\* load_urls_from_json is called on a file
LoaderInit ==
    /\ NoManager
    /\ call \in {[fn |-> "load_urls_from_json", arg |-> file, done |-> FALSE,
                  ret |-> [raised |-> FALSE, data |-> default_structure]] :
                    file \in Files}
load ==
    /\ call.fn = "load_urls_from_json" /\ ~call.done
    /\ call' = [call EXCEPT !.done = TRUE, !.ret = load_urls_from_json(call.arg)]
    /\ UNCHANGED <<cache, max_size, ttl, enabled, clock, task, last, fill, mru, batch>>
LoaderNext == load
LoaderSpec == LoaderInit /\ [][LoaderNext]_vars

\* ------------------------------------------- server.py: buscar_conteudo_url
\* validate_string(url, min_length=1, max_length=500)
UrlMinLength == 1
UrlMaxLength == 500
\* the default max_length of fetch_url_content
DefaultMaxLength == 5000

\* the characters sanitize_input removes: < > " '
Dangerous == {"<", ">", "\"", "'"}
\* sanitize_input on a str: the first substitution removes every < and >, so
\* the two that follow (script elements, tags) find nothing left to remove
sanitize_input(text) == SelectSeq(text, LAMBDA ch : ch \notin Dangerous)
\* validate_string(value, min_length, max_length): ValueError or the sanitized text
validate_string(value, min_length, max_length) ==
    IF value.kind # "str"
    THEN [raised |-> TRUE, text |-> <<>>]
    ELSE LET text == sanitize_input(value.text) IN
         IF Len(text) < min_length \/ (max_length # 0 /\ Len(text) > max_length)
         THEN [raised |-> TRUE, text |-> <<>>]
         ELSE [raised |-> FALSE, text |-> text]

\* the url arguments of the tool calls
Requests ==
    LET Http(rest) == <<"h", "t", "t", "p", ":", "/", "/">> \o rest
        Https(rest) == <<"h", "t", "t", "p", "s", ":", "/", "/">> \o rest
        ExampleCom == <<"e", "x", "a", "m", "p", "l", "e", ".", "c", "o", "m">>
    IN
    {Str(Https(ExampleCom)),
     Str(Https(ExampleCom \o <<"/", "<", "b", ">">>)),
     Str(Http(<<"i", "n", "t", "r", "a", "n", "e", "t">>)),
     Str(<<"n", "o", "t", " ", "a", " ", "u", "r", "l">>),
     Str(<<"f", "t", "p", ":", "/", "/">> \o ExampleCom),
     Str(<<"<", ">">>),
     Str([i \in 1..(UrlMaxLength + 1) |-> "a"]),
     Number}

\* the client retrieves over http and https only: for any other URL
\* http_client.get raises httpx.UnsupportedProtocol, a RequestError
has_http_scheme(url) ==
    LET t == lower(url) IN
    \/ Len(t) >= 7 /\ SubSeq(t, 1, 7) = <<"h", "t", "t", "p", ":", "/", "/">>
    \/ Len(t) >= 8 /\ SubSeq(t, 1, 8) = <<"h", "t", "t", "p", "s", ":", "/", "/">>

\* the error result of the except clauses of the tool
ToolError == [status |-> "error", conteudo |-> Absent, length |-> 0, cached |-> FALSE]
\* the success result of the tool
ToolSuccess(content, cached) ==
    [status |-> "success", conteudo |-> Some(content), length |-> Len(content),
     cached |-> cached]
\* attempted: history, the call reached `await self.http_client.get(url)`
ToolCall(request) ==
    [fn |-> "buscar_conteudo_url", arg |-> request, done |-> FALSE, ret |-> ToolError,
     url |-> <<>>, attempted |-> FALSE]

\* buscar_conteudo_url(url) up to its return (validation error, cache hit) or
\* to the await of the retrieval inside fetch_url_content; the cache is read
\* twice on a miss, by the tool and by fetch_url_content
buscar_conteudo_url(request) ==
    LET v == validate_string(request, UrlMinLength, UrlMaxLength)
        r1 == IF enabled THEN URLCache_get(cache, v.text, clock)
                         ELSE [cache |-> cache, ret |-> Absent]
        r2 == IF enabled THEN URLCache_get(r1.cache, v.text, clock)
                         ELSE [cache |-> cache, ret |-> Absent]
    IN
    /\ IF call.fn = "none" THEN TRUE ELSE call.done
    /\ IF v.raised
       THEN /\ call' = [ToolCall(request) EXCEPT !.done = TRUE]
            /\ cache' = cache
       ELSE IF is_hit(r1.ret)
       THEN /\ call' = [ToolCall(request) EXCEPT !.done = TRUE, !.url = v.text,
                                                 !.ret = ToolSuccess(r1.ret.text, TRUE)]
            /\ cache' = r1.cache
       ELSE /\ call' = [ToolCall(request) EXCEPT !.url = v.text, !.attempted = TRUE]
            /\ cache' = r2.cache
    /\ UNCHANGED <<max_size, ttl, enabled, clock, task, last, fill, mru, batch>>

\* the retrieval succeeded: fetch_url_content truncates, stores and returns
\* the text (or the diagnostic of a failed cache write), the tool reports success
RetrievalOk(page) ==
    LET cleaned_text == truncate(page, DefaultMaxLength)
        raises == enabled /\ set_raises(cache, clock, max_size)
        content == IF raises THEN handle("KeyError").ret.text ELSE cleaned_text
    IN
    /\ call.fn = "buscar_conteudo_url" /\ ~call.done
    /\ has_http_scheme(call.url)
    /\ \/ /\ enabled
          /\ \E d1, d2 \in Drifts :
                /\ clock + d1 + d2 <= MaxClock
                /\ DoSet(call.url, cleaned_text, clock, clock + d1, clock + d1 + d2)
       \/ /\ ~enabled
          /\ UNCHANGED <<cache, clock>>
    /\ call' = [call EXCEPT !.done = TRUE, !.ret = ToolSuccess(content, FALSE)]
    /\ UNCHANGED <<max_size, ttl, enabled, task, last, fill, mru, batch>>

\* the retrieval raised: fetch_url_content returns the diagnostic, the tool
\* reports success with the diagnostic as content
RetrievalFail(exc) ==
    /\ call.fn = "buscar_conteudo_url" /\ ~call.done
    /\ has_http_scheme(call.url) \/ exc = "RequestError"
    /\ call' = [call EXCEPT !.done = TRUE,
                            !.ret = ToolSuccess(handle(exc).ret.text, FALSE)]
    /\ UNCHANGED <<cache, max_size, ttl, enabled, clock, task, last, fill, mru, batch>>

\* the tool called again and again, one call at a time
ServerNext ==
    \/ Tick
    \/ \E request \in Requests : buscar_conteudo_url(request)
    \/ \E page \in Pages : RetrievalOk(page)
    \/ \E exc \in Exceptions : RetrievalFail(exc)
ServerSpec == Init /\ [][ServerNext]_vars

\* ------------------------------------ docs_manager.py: search_documentation
\* A text of the source is written character by character; an accented
\* letter is one character, written as the letter followed by its accent.
Beneficiarios == <<"b", "e", "n", "e", "f", "i", "c", "i", "a", "r", "i", "o", "s">>
ConselhoRural == <<"c", "o", "n", "s", "e", "l", "h", "o", "_", "r", "u", "r", "a", "l">>
ConvenioCooperativas == <<"c", "o", "n", "v", "e", "n", "i", "o", "_", "c", "o", "o", "p", "e", "r", "a", "t", "i", "v", "a", "s">>
FundoRural == <<"f", "u", "n", "d", "o", "_", "r", "u", "r", "a", "l">>
Maquinario == <<"m", "a", "q", "u", "i", "n", "a", "r", "i", "o">>
\* DOCUMENTATION_MAP, in the order of its items: the topics and the common issues
\* of each category
DOCUMENTATION_MAP ==
    <<
      [categoria |-> Beneficiarios,
       topics |-> <<
          <<"c", "a", "d", "a", "s", "t", "r", "o">>,
          <<"d", "o", "a", "c,", "o~", "e", "s">>,
          <<"e", "m", "p", "r", "e'", "s", "t", "i", "m", "o", "s">>,
          <<"i", "m", "p", "l", "e", "m", "e", "n", "t", "o", "s", " ", "a", "g", "r", "i'", "c", "o", "l", "a", "s">>,
          <<"s", "o", "l", "i", "c", "i", "t", "a", "n", "t", "e", "s">>>>,
       common_issues |-> <<
          <<"c", "a", "d", "a", "s", "t", "r", "o", " ", "i", "n", "c", "o", "m", "p", "l", "e", "t", "o">>,
          <<"v", "a", "l", "i", "d", "a", "c,", "a~", "o", " ", "d", "e", " ", "d", "o", "c", "u", "m", "e", "n", "t", "o", "s">>,
          <<"a", "p", "r", "o", "v", "a", "c,", "a~", "o", " ", "d", "e", " ", "s", "o", "l", "i", "c", "i", "t", "a", "c,", "o~", "e", "s">>>>],
      [categoria |-> ConselhoRural,
       topics |-> <<
          <<"g", "e", "s", "t", "a~", "o">>,
          <<"r", "e", "u", "n", "i", "o~", "e", "s">>,
          <<"d", "e", "l", "i", "b", "e", "r", "a", "c,", "o~", "e", "s">>,
          <<"m", "e", "m", "b", "r", "o", "s">>,
          <<"a", "t", "a", "s">>>>,
       common_issues |-> <<
          <<"q", "u", "o'", "r", "u", "m", " ", "i", "n", "s", "u", "f", "i", "c", "i", "e", "n", "t", "e">>,
          <<"v", "a", "l", "i", "d", "a", "c,", "a~", "o", " ", "d", "e", " ", "d", "e", "l", "i", "b", "e", "r", "a", "c,", "o~", "e", "s">>,
          <<"r", "e", "g", "i", "s", "t", "r", "o", " ", "d", "e", " ", "a", "t", "a", "s">>>>],
      [categoria |-> ConvenioCooperativas,
       topics |-> <<
          <<"c", "o", "n", "v", "e^", "n", "i", "o", "s">>,
          <<"a", "s", "s", "o", "c", "i", "a", "c,", "o~", "e", "s">>,
          <<"c", "o", "o", "p", "e", "r", "a", "t", "i", "v", "a", "s">>,
          <<"p", "a", "r", "c", "e", "r", "i", "a", "s">>,
          <<"c", "o", "n", "t", "r", "a", "t", "o", "s">>>>,
       common_issues |-> <<
          <<"v", "a", "l", "i", "d", "a", "c,", "a~", "o", " ", "d", "e", " ", "d", "o", "c", "u", "m", "e", "n", "t", "o", "s">>,
          <<"r", "e", "n", "o", "v", "a", "c,", "a~", "o", " ", "d", "e", " ", "c", "o", "n", "v", "e^", "n", "i", "o", "s">>,
          <<"p", "r", "e", "s", "t", "a", "c,", "a~", "o", " ", "d", "e", " ", "c", "o", "n", "t", "a", "s">>>>],
      [categoria |-> FundoRural,
       topics |-> <<
          <<"c", "r", "e'", "d", "i", "t", "o", " ", "r", "u", "r", "a", "l">>,
          <<"f", "i", "n", "a", "n", "c", "i", "a", "m", "e", "n", "t", "o">>,
          <<"r", "e", "c", "u", "r", "s", "o", "s">>,
          <<"g", "e", "s", "t", "a~", "o", " ", "f", "i", "n", "a", "n", "c", "e", "i", "r", "a">>,
          <<"a", "p", "l", "i", "c", "a", "c,", "a~", "o">>>>,
       common_issues |-> <<
          <<"a", "p", "r", "o", "v", "a", "c,", "a~", "o", " ", "d", "e", " ", "c", "r", "e'", "d", "i", "t", "o">>,
          <<"d", "o", "c", "u", "m", "e", "n", "t", "a", "c,", "a~", "o", " ", "n", "e", "c", "e", "s", "s", "a'", "r", "i", "a">>,
          <<"p", "r", "a", "z", "o", "s", " ", "d", "e", " ", "p", "a", "g", "a", "m", "e", "n", "t", "o">>>>],
      [categoria |-> Maquinario,
       topics |-> <<
          <<"c", "o", "n", "t", "r", "o", "l", "e">>,
          <<"m", "a", "n", "u", "t", "e", "n", "c,", "a~", "o">>,
          <<"e", "s", "t", "r", "a", "d", "a", "s", " ", "r", "u", "r", "a", "i", "s">>,
          <<"s", "e", "r", "v", "i", "c,", "o", "s">>,
          <<"e", "q", "u", "i", "p", "a", "m", "e", "n", "t", "o", "s">>>>,
       common_issues |-> <<
          <<"m", "a", "n", "u", "t", "e", "n", "c,", "a~", "o", " ", "p", "r", "e", "v", "e", "n", "t", "i", "v", "a">>,
          <<"d", "i", "s", "p", "o", "n", "i", "b", "i", "l", "i", "d", "a", "d", "e", " ", "d", "e", " ", "e", "q", "u", "i", "p", "a", "m", "e", "n", "t", "o", "s">>,
          <<"a", "g", "e", "n", "d", "a", "m", "e", "n", "t", "o", " ", "d", "e", " ", "s", "e", "r", "v", "i", "c,", "o", "s">>>>]>>

\* the categories get_tutorials walks when it is given none, in its order
categories == <<Beneficiarios, ConselhoRural, ConvenioCooperativas, FundoRural, Maquinario>>

\* a result list is cut at 10 results
ResultLimit == 10

\* `q in s` on two str
contains(s, q) ==
    \E i \in 0..(Len(s) - Len(q)) : \A k \in 1..Len(q) : s[i + k] = q[k]
\* the truth value of the category argument: None and "" are false
truthy(category) == category.kind = "str" /\ category.text # <<>>
\* s1 + s2 + ... for a sequence of sequences
RECURSIVE Concat(_)
Concat(seqs) == IF seqs = <<>> THEN <<>> ELSE Head(seqs) \o Concat(Tail(seqs))
\* the knowledge-base pass over one item of DOCUMENTATION_MAP
kb_category(info, query_lower) ==
    LET matching(texts) == SelectSeq(texts, LAMBDA text : contains(lower(text), query_lower))
        \* the dict appended for a topic or a common issue
        result(tipo, titulo) ==
            [tipo |-> tipo, categoria |-> Str(info.categoria), titulo |-> titulo,
             url |-> Absent, relevancia |-> "alta", fonte |-> "base_conhecimento"]
        topics == matching(info.topics)
        common_issues == matching(info.common_issues)
    IN [i \in 1..Len(topics) |-> result("topico", topics[i])]
           \o [i \in 1..Len(common_issues) |-> result("problema_comum", common_issues[i])]
\* the knowledge-base pass
knowledge_base(query_lower, category) ==
    LET skipped(info) == truthy(category) /\ info.categoria # category.text
        one(info) == IF skipped(info) THEN <<>> ELSE kb_category(info, query_lower)
    IN Concat([i \in 1..Len(DOCUMENTATION_MAP) |-> one(DOCUMENTATION_MAP[i])])

\* the directory of a category under tutoriais/ cannot be searched:
\* urls_file.exists() raises PermissionError
Forbidden == [state |-> "forbidden", value |-> Null]
\* get_tutorials(category): every exception ends in the empty list
get_tutorials(repo, category) ==
    LET \* what is at tutoriais/<cat>/urls.json
        urls_file(cat) == IF cat \in DOMAIN repo.tutoriais THEN repo.tutoriais[cat] ELSE NoFile
        one(cat) == IF urls_file(cat).state = "missing" THEN <<>>
                    ELSE load_urls_from_json(urls_file(cat)).data.tutoriais
    IN
    IF truthy(category)
    THEN IF urls_file(category.text).state = "forbidden" THEN <<>> ELSE one(category.text)
    ELSE IF \E i \in 1..Len(categories) : urls_file(categories[i]).state = "forbidden"
         THEN <<>>
         ELSE Concat([i \in 1..Len(categories) |-> one(categories[i])])

\* the dict appended for a tutorial
tutorial_result(tutorial) ==
    [tipo |-> "tutorial", categoria |-> tutorial.categoria, titulo |-> tutorial.titulo.text,
     url |-> Some(tutorial.url.text), relevancia |-> "alta", fonte |-> "tutoriais"]
\* `.lower()` is called on the title and on every topic: a value that is not
\* a str has no such method (AttributeError)
lower_raises(tutorial) ==
    \/ tutorial.titulo.kind # "str"
    \/ \E i \in 1..Len(tutorial.topicos.items) : tutorial.topicos.items[i].kind # "str"
\* `query_lower in titulo or any(query_lower in t for t in topicos)`
tutorial_matches(tutorial, query_lower) ==
    \/ contains(lower(tutorial.titulo.text), query_lower)
    \/ \E i \in 1..Len(tutorial.topicos.items) :
          contains(lower(tutorial.topicos.items[i].text), query_lower)
\* a pass that emits every matching tutorial
never_seen(url, seen_urls) == FALSE
\* `if url in seen_urls: continue`
already_seen(url, seen_urls) == url \in seen_urls
\* the tutorial pass: the loop over the tutorials, seen_urls being the URLs
\* emitted so far
RECURSIVE tutorial_pass(_, _, _)
tutorial_pass(tutorials, query_lower, seen_urls) ==
    IF tutorials = <<>> THEN [raised |-> FALSE, results |-> <<>>]
    ELSE LET tutorial == Head(tutorials)
             url == tutorial.url.text
         IN
         IF already_seen(url, seen_urls)
         THEN tutorial_pass(Tail(tutorials), query_lower, seen_urls)
         ELSE IF lower_raises(tutorial) THEN [raised |-> TRUE, results |-> <<>>]
         ELSE IF tutorial_matches(tutorial, query_lower)
         THEN LET rest == tutorial_pass(Tail(tutorials), query_lower, seen_urls \cup {url})
              IN [rest EXCEPT !.results = <<tutorial_result(tutorial)>> \o @]
         ELSE tutorial_pass(Tail(tutorials), query_lower, seen_urls)

\* the loop over md_dir.glob("*.md")
documents_of(dir, query_lower) ==
    LET \* `content and query_lower in content.lower()`, content being what
        \* get_document returned: the text of the file, or None when it cannot be read
        document_matches(md_file) ==
            /\ md_file.content.present
            /\ md_file.content.text # <<>>
            /\ contains(lower(md_file.content.text), query_lower)
        matching == SelectSeq(dir.files, document_matches)
        \* the dict appended for a Markdown document
        result(md_file) ==
            [tipo |-> "documento", categoria |-> Str(dir.name), titulo |-> md_file.stem,
             url |-> Absent, relevancia |-> "media", fonte |-> "documentos_md"]
    IN [i \in 1..Len(matching) |-> result(matching[i])]
\* the document pass: with a category, its directory if it exists; without,
\* every directory self.md_path.iterdir() yields, which raises when md_path
\* is missing (FileNotFoundError) or cannot be listed (PermissionError)
document_pass(repo, query_lower, category) ==
    IF truthy(category)
    THEN LET found == IF repo.md.state = "missing" THEN <<>>
                      ELSE SelectSeq(repo.md.dirs, LAMBDA dir : dir.name = category.text)
             one(dir) == IF dir.is_dir THEN documents_of(dir, query_lower) ELSE <<>>
         IN [raised |-> FALSE, results |-> Concat([i \in 1..Len(found) |-> one(found[i])])]
    ELSE IF repo.md.state # "ok" THEN [raised |-> TRUE, results |-> <<>>]
    ELSE LET one(dir) == IF dir.is_dir THEN documents_of(dir, query_lower) ELSE <<>>
         IN [raised |-> FALSE,
             results |-> Concat([i \in 1..Len(repo.md.dirs) |-> one(repo.md.dirs[i])])]

\* the results of the three passes in the order they are appended
documents_first(kb, tutorials, documents) == documents \o kb \o tutorials
all_results(kb, tutorials, documents) == kb \o tutorials \o documents

\* (result.get("tipo"), result.get("titulo"), result.get("url", ""))
key(result) ==
    <<result.tipo, result.titulo, IF result.url.present THEN result.url.text ELSE <<>>>>
\* the final loop: unique_results so far (unique), over the results still to
\* visit; search_documentation returns unique_results
\* a loop that takes every key for a new one
never_duplicate(result, seen_keys) == FALSE
\* `key not in seen_keys`, negated
is_duplicate(result, seen_keys) == key(result) \in seen_keys
\* a loop that never breaks
limit_never_reached(unique) == FALSE
\* `if len(unique_results) >= 10: break`
limit_reached(unique) == Len(unique) >= ResultLimit
RECURSIVE dedup(_, _, _)
dedup(results, seen_keys, unique) ==
    IF results = <<>> THEN unique
    ELSE IF is_duplicate(Head(results), seen_keys)
    THEN dedup(Tail(results), seen_keys, unique)
    ELSE IF limit_reached(Append(unique, Head(results)))
    THEN Append(unique, Head(results))
    ELSE dedup(Tail(results), seen_keys \cup {key(Head(results))},
               Append(unique, Head(results)))
\* search_documentation(query, category) on the repository repo
search_documentation(query, category, repo) ==
    LET query_lower == lower(query)
        kb == knowledge_base(query_lower, category)
        tutorials == tutorial_pass(get_tutorials(repo, category), query_lower, {})
        documents == document_pass(repo, query_lower, category)
    IN IF tutorials.raised THEN [raised |-> TRUE, results |-> <<>>]
       ELSE IF documents.raised THEN [raised |-> TRUE, results |-> <<>>]
       ELSE [raised |-> FALSE,
             results |-> dedup(all_results(kb, tutorials.results, documents.results),
                               {}, <<>>)]

\* the queries
Queries == {<<>>, <<"M", "A", "N", "U", "T">>, <<"v", "a", "l", "i", "d", "a">>, <<"z", "z", "z">>}
\* the category arguments: None, "", two categories, a name that is no category
SearchCategories == {Null, Str(<<>>), Str(Maquinario), Str(Beneficiarios), Str(<<"o", "u", "t", "r", "a">>)}

\* what is at tutoriais/<category>/urls.json, with at most n tutorials;
\* entries of the "tutoriais" list: two titles on one URL, an entry that
\* matches by a topic and names no category, a title that is a number
TutorialFiles(n) ==
    LET Tutorials ==
            {Item(Str(<<"M", "a", "n", "u", "t", " ", "1">>), Good, Missing, Str(Maquinario), Missing),
             Item(Str(<<"M", "a", "n", "u", "t", " ", "2">>), Good, Missing, Str(Beneficiarios), Missing),
             Item(Str(<<"O", "u", "t", "r", "o">>), Local, Missing, Missing, List(<<Str(<<"M", "a", "n", "u", "t", "e", "n", "c", "a", "o">>)>>)),
             Item(Number, Local, Missing, Missing, Missing)}
    IN
    {NoFile, Malformed, Forbidden}
        \cup {Json([kind |-> "dict", tutoriais |-> List(l), urls |-> Missing]) :
                l \in Lists(Tutorials, n)}

\* the md/ directory: missing, not listable, or its entries in the order
\* iterdir yields them
MdDirs ==
    LET \* a Markdown file: its stem and what get_document returns for it
        MdFile(stem, content) == [stem |-> stem, content |-> content]
        \* an entry of md/: a category directory with its *.md files in the order
        \* glob yields them, or a plain file
        Dir(name, files) == [name |-> name, is_dir |-> TRUE, files |-> files]
        PlainFile(name) == [name |-> name, is_dir |-> FALSE, files |-> <<>>]
        Guia == <<"g", "u", "i", "a">>
        MaquinarioDir ==
            Dir(Maquinario, <<MdFile(Guia, Some(<<"M", "a", "n", "u", "t", "e", "n", "c", "a", "o", " ", "d", "e", " ", "t", "r", "a", "t", "o", "r", "e", "s">>)),
                              MdFile(<<"i", "l", "e", "g", "i", "v", "e", "l">>, Absent)>>)
        BeneficiariosDir ==
            Dir(Beneficiarios, <<MdFile(Guia, Some(<<"m", "a", "n", "u", "t">>)), MdFile(<<"v", "a", "z", "i", "o">>, Some(<<>>))>>)
        OutraDir == Dir(<<"o", "u", "t", "r", "a">>, <<MdFile(<<"n", "o", "t", "a", "s">>, Some(<<"V", "a", "l", "i", "d", "a", "r", " ", "m", "a", "n", "u", "t", "e", "n", "c", "a", "o">>))>>)
    IN
    {[state |-> "missing", dirs |-> <<>>],
     [state |-> "unreadable", dirs |-> <<MaquinarioDir, BeneficiariosDir>>],
     [state |-> "ok", dirs |-> <<>>],
     [state |-> "ok", dirs |-> <<MaquinarioDir>>],
     [state |-> "ok", dirs |-> <<MaquinarioDir, BeneficiariosDir>>],
     [state |-> "ok", dirs |-> <<BeneficiariosDir, PlainFile(<<"R", "E", "A", "D", "M", "E">>), MaquinarioDir>>],
     [state |-> "ok", dirs |-> <<OutraDir, MaquinarioDir>>]}
\* the documentation directory: the urls.json of two categories (the other
\* categories have none) and the md/ directory
Repositories ==
    {[tutoriais |-> (Maquinario :> m) @@ (Beneficiarios :> b), md |-> d] :
        m \in TutorialFiles(MaxEntries), b \in TutorialFiles(1), d \in MdDirs}

\* search_documentation is called on a repository
SearchInit ==
    /\ NoManager
    /\ call \in {[fn |-> "search_documentation",
                  arg |-> [query |-> q, category |-> c, repo |-> r],
                  done |-> FALSE, ret |-> [raised |-> FALSE, results |-> <<>>]] :
                    q \in Queries, c \in SearchCategories, r \in Repositories}
search ==
    /\ call.fn = "search_documentation" /\ ~call.done
    /\ call' = [call EXCEPT !.done = TRUE,
                            !.ret = search_documentation(call.arg.query, call.arg.category,
                                                         call.arg.repo)]
    /\ UNCHANGED <<cache, max_size, ttl, enabled, clock, task, last, fill, mru, batch>>
SearchSpec == SearchInit /\ [][search]_vars

\* ------------------------------------------------------------------ claims

\* C1: get(url) returns the stored content if and only if an entry for url is
\* present and now <= cached_at + ttl, and returns absent once now > expires_at.
C1_GetIffWithinTtl ==
    [][LET url == last'.url IN (last'.op = "get" /\ Get(url)) =>
        /\ last'.ret.present <=>
              (url \in Keys(cache) /\ clock <= Entry(cache, url).cached_at + ttl)
        /\ last'.ret.present => last'.ret.text = Entry(cache, url).content
        /\ (url \in Keys(cache) /\ clock > Entry(cache, url).expires_at)
              => ~last'.ret.present]_vars

\* C2: from an empty cache, set on max_size + 1 distinct URLs with no expiry in
\* between leaves exactly max_size entries: all but the first URL inserted.
C2_FillEvictsFirst ==
    (fill.ok /\ Len(fill.urls) = max_size + 1) =>
        /\ Len(cache) = max_size
        /\ Keys(cache) = Range(Tail(fill.urls))
        /\ fill.urls[1] \notin Keys(cache)
C2_Witness == fill.ok /\ Len(fill.urls) = max_size + 1 /\ max_size = MaxCap

\* an unexpired entry of url is in the cache before the step and gone after it
EvictedNow(url) ==
    /\ url \in Keys(cache)
    /\ ~(Entry(cache, url).expires_at < clock)
    /\ url \notin Keys(cache')

\* C3 as stated: after a successful dict_get(A), setting new URLs until one eviction
\* happens never evicts A, for every max_size.
C3_GetProtectsAnyCap ==
    [][LET url == last'.url IN
        (last'.op = "set" /\ mru.url # NoURL /\ ~mru.evicted
            /\ url \notin Keys(cache) /\ url # mru.url
            /\ Set(url, Entry(cache', url).content))
        => ~EvictedNow(mru.url)]_vars

\* C3 amended: the same, provided an unexpired entry that was already stored
\* when A was read is still in the cache when the eviction happens.
C3_GetProtects ==
    [][LET url == last'.url IN
        (last'.op = "set" /\ mru.url # NoURL /\ ~mru.evicted
            /\ url \notin Keys(cache) /\ url # mru.url
            /\ \E u \in mru.older \cap Keys(cache) : ~(Entry(cache, u).expires_at < clock)
            /\ Set(url, Entry(cache', url).content))
        => ~EvictedNow(mru.url)]_vars
C3_Witness ==
    /\ mru.url # NoURL /\ mru.evicted /\ mru.url \in Keys(cache)
    /\ last.op = "set" /\ last.dropped # {}

\* the unexpired entries of the cache at the clock of the step, and the oldest of them
Live == {e \in Range(cache) : ~(e.expires_at < clock)}
Oldest == cache[CHOOSE i \in 1..Len(cache) :
                /\ cache[i] \in Live
                /\ \A j \in 1..(i - 1) : cache[j] \notin Live]

\* C5: set(url, text) removes every entry with expires_at < now, then, only if
\* max_size entries remain, the least recently used of them, then inserts url;
\* it removes no other entry.
C5_SetRemovesExpiredThenOldest ==
    [][LET url == last'.url IN (last'.op = "set" /\ Set(url, Entry(cache', url).content)) =>
        /\ url \in Keys(cache')
        /\ \A e \in Range(cache) : e.url # url =>
              (e \in Range(cache') <=>
                  (e \in Live /\ ~(Cardinality(Live) = max_size /\ e = Oldest)))
        /\ \A e \in Range(cache') : e.url # url => e \in Range(cache)]_vars
\* set has evicted an unexpired entry that expires later than one it kept
C5_Witness ==
    /\ last.op = "set"
    /\ \E d \in last.dropped, e \in Range(cache) :
          e.url # last.url /\ e.expires_at < d.expires_at

\* the entries of the cache other than url's, in order
Others(c, url) == SelectSeq(c, LAMBDA e : e.url # url)

\* C6: get on an expired entry returns absent and removes that entry; get on
\* an absent URL returns absent and changes nothing; get on a fresh entry
\* removes nothing and changes no entry's content or expiry.
C6_GetLazyExpiry ==
    [][LET url == last'.url IN (last'.op = "get" /\ Get(url)) =>
        /\ (url \in Keys(cache) /\ clock > Entry(cache, url).expires_at) =>
              /\ ~last'.ret.present
              /\ url \notin Keys(cache')
              /\ cache' = Others(cache, url)
        /\ url \notin Keys(cache) => (~last'.ret.present /\ cache' = cache)
        /\ (url \in Keys(cache) /\ ~(clock > Entry(cache, url).expires_at)) =>
              Range(cache') = Range(cache)]_vars
\* get has just removed the expired entry it was asked for, and kept another
C6_Witness ==
    /\ last.op = "get" /\ ~last.ret.present
    /\ \E d \in last.dropped : d.url = last.url
    /\ cache # <<>>

\* C7: stats() leaves the stored entries, expired ones included, and their
\* order as they were, and reports the entries with expires_at > now as valid
\* and the remaining stored entries as expired.
C7_StatsReadOnly ==
    [][(last'.op = "stats" /\ Stats) =>
        /\ cache' = cache
        /\ last'.stats.valid = Cardinality({e \in Range(cache) : e.expires_at > clock'})
        /\ last'.stats.expired = Len(cache) - last'.stats.valid]_vars

\* C8: every stored entry has expires_at = cached_at + ttl.
C8_ExpiresIsCachedPlusTtl ==
    \A e \in Range(cache) : e.expires_at = e.cached_at + ttl

\* C4: under every interleaving of concurrent fetches with clear, stats and
\* cache reads, the cache holds at most max_size entries and each URL at most
\* once (each cache method runs without suspension, as one step).
C4_CacheBoundedAndUnique ==
    /\ Len(cache) <= max_size
    /\ \A i, j \in 1..Len(cache) : cache[i].url = cache[j].url => i = j
\* a fetch has stored into a full cache, evicting an entry, while another
\* fetch was suspended at its retrieval
C4_Witness ==
    /\ last.op = "fetch_ok" /\ last.dropped # {}
    /\ Len(cache) = max_size /\ max_size = MaxCap
    /\ \E t \in Tasks : task[t].pc = "awaiting"

\* C9: when cache.get(url) is present at the start of fetch(url, max_length),
\* fetch returns that content cut to max_length, with no network retrieval and
\* no cache write, empty content included.
C9_PresentMeansHit ==
    [][\A t \in Tasks, max_length \in 1..MaxLen :
        LET url == last'.url
            got == URLCache_get(cache, url, clock).ret
        IN
        (/\ enabled
         /\ last'.op \in {"fetch_hit", "fetch_await"}
         /\ got.present
         /\ FetchStart(t, url, max_length))
        => /\ task'[t].pc = "idle"
           /\ last'.ret = Some(Prefix(got.text, max_length))
           /\ Range(cache') = Range(cache)]_vars

\* the last Len(m) characters of s are m
EndsWith(s, m) ==
    Len(s) >= Len(m) /\ SubSeq(s, Len(s) - Len(m) + 1, Len(s)) = m

\* C10: a successful fetch never returns more than max_length characters, and
\* on a page whose text is longer than max_length it returns exactly
\* max_length characters ending in the truncation marker.
C10_FetchWithinMaxLength ==
    [][\A t \in Tasks, page \in Pages :
        (last'.op = "fetch_ok" /\ FetchOk(t, page)) =>
            /\ Len(last'.ret.text) <= task[t].max_length
            /\ Len(page) > task[t].max_length =>
                  /\ Len(last'.ret.text) = task[t].max_length
                  /\ EndsWith(last'.ret.text, TruncationMarker)]_vars

\* C11: a fetch(url, max_length) that follows a successful cache miss of the
\* same url and max_length, while the entry it stored has not expired, performs
\* no network retrieval and returns the string the first call returned (stated
\* for a first call that returned a non-empty text; the empty text is C9's case).
C11_SecondFetchIdentical ==
    [][\A t \in Tasks :
        LET url == last.url
            max_length == last.max_length
        IN
        (/\ enabled
         /\ last.op = "fetch_ok" /\ last.ret.text # <<>>
         /\ last'.op \in {"fetch_hit", "fetch_await"}
         /\ url \in Keys(cache)
         /\ clock <= Entry(cache, url).expires_at
         /\ FetchStart(t, url, max_length))
        => /\ last'.op = "fetch_hit"
           /\ last'.ret = last.ret]_vars

\* C12: fetch never raises to its caller: whether the retrieval fails with an
\* HTTP status, a connection error or any other exception, or the cache write
\* raises, the call returns a text.
C12_FetchNeverRaises ==
    last.op \in {"fetch_hit", "fetch_ok", "fetch_failed"} =>
        (~last.raised /\ last.ret.present)
\* a fetch has returned the diagnostic of an exception that is neither an HTTP
\* status nor a connection error
C12_Witness ==
    /\ last.op = "fetch_failed" /\ ~last.raised
    /\ last.ret \in {Some(ErrProcess), Some(ErrKeyError)}

\* C17: with max_size < 1 or ttl <= 0 no call of set, get or fetch fails at
\* runtime because of that value: none raises, and no fetch returns the
\* diagnostic of the cache write's exception.
C17_NoRuntimeErrorFromConfig ==
    (max_size < 1 \/ ttl <= 0) =>
        (~last.raised /\ last.ret # Some(ErrKeyError))

\* C13: when fetch(url, max_length) returns after a successful retrieval with
\* the cache enabled, the cache holds an entry under url, and a dict_get(url) made
\* at once returns the text fetch returned.
C13_FetchStoresWhatItReturns ==
    [][(/\ enabled
        /\ last'.op = "fetch_ok"
        /\ \E t \in Tasks, page \in Pages : FetchOk(t, page))
       => LET url == last'.url IN
          /\ Cardinality({i \in 1..Len(cache') : cache'[i].url = url}) = 1
          /\ URLCache_get(cache', url, clock').ret = last'.ret]_vars
\* a fetch has returned a truncated text and stored it, evicting another entry
C13_Witness ==
    /\ enabled /\ last.op = "fetch_ok" /\ last.dropped # {}
    /\ EndsWith(last.ret.text, TruncationMarker)
    /\ last.url \in Keys(cache) /\ Entry(cache, last.url).content = last.ret.text

\* C16: with the cache disabled nothing is ever stored (by a fetch, or left
\* for clear to remove), no fetch returns without a network retrieval, and
\* every statistics call reports enabled = false and zero total, valid and
\* expired entries.
C16_DisabledCacheIsInert ==
    ~enabled =>
        /\ cache = <<>>
        /\ last.dropped = {}
        /\ last.op # "fetch_hit"
        /\ last.op = "stats" =>
              /\ last.stats.enabled = FALSE
              /\ last.stats.total = 0
              /\ last.stats.valid = 0
              /\ last.stats.expired = 0
\* with the cache disabled, a fetch has returned the text it retrieved while
\* another fetch of the same URL was at its retrieval
C16_Witness ==
    /\ ~enabled /\ last.op = "fetch_ok" /\ last.ret.text # <<>>
    /\ \E t \in Tasks : task[t].pc = "awaiting" /\ task[t].url = last.url

\* what a coroutine that obtained c returns under max_length
OwnResult(c, max_length) ==
    CASE c.kind = "hit" -> cache_hit_value(c.got, max_length)
      [] c.kind = "page" -> truncate(c.got, max_length)
      [] OTHER -> diagnostic(c.kind)

\* C14: the mapping fetch_multiple_urls returns has exactly one slot per
\* distinct URL of urls, and the slot of a URL holds what a fetch of that URL
\* (the last one of the list) obtained by itself: its text cut to max_length, or
\* the diagnostic of its own failure, whatever the other fetches did and in
\* whatever order they finished.
C14_OneSlotPerURL ==
    batch.pc = "returned" =>
        /\ DOMAIN batch.results = Range(batch.urls)
        /\ \A i \in 1..Len(batch.urls) :
              (\A j \in (i + 1)..Len(batch.urls) : batch.urls[j] # batch.urls[i]) =>
                  batch.results[batch.urls[i]] = OwnResult(batch.co[i], batch.max_length)
\* a batch has returned in which the second fetch finished first and
\* succeeded, and the first fetch failed
C14_Witness ==
    /\ batch.pc = "returned" /\ Len(batch.urls) = MaxBatch
    /\ batch.order[1] = 2 /\ batch.co[2].kind = "page"
    /\ batch.co[1].kind \in Exceptions
    /\ batch.urls[1] # batch.urls[2]
    /\ batch.results[batch.urls[2]] # <<>>

\* C15: fetch_multiple_urls returns only when every one of its fetches is
\* done; a fetch at its retrieval can complete whatever the state of the
\* others; and, every retrieval completing, a batch that has started returns.
C15_JoinsAllAndReturns ==
    /\ [](batch.pc = "returned" =>
            \A i \in 1..Len(batch.urls) : batch.co[i].pc = "done")
    /\ [](\A i \in 1..Len(batch.urls) :
            (batch.pc = "gathering" /\ batch.co[i].pc = "awaiting") => ENABLED GatherDone(i))
    /\ (batch.pc = "gathering" ~> batch.pc = "returned")
\* a batch has returned whose fetches were both at their retrieval at the same
\* time, the second one finishing first
C15_Witness ==
    /\ batch.pc = "returned" /\ Len(batch.urls) = MaxBatch
    /\ batch.co[1].kind # "hit" /\ batch.co[2].kind # "hit"
    /\ batch.order = <<2, 1>>

\* C20: validate_url returns a boolean for every value: True for
\* https://example.com, http://localhost:8080/path and https://192.168.1.1,
\* False for ftp://x.com, "not a url", the empty string and every value that is
\* not a string.
C20_ValidatorExamples ==
    (call.fn = "validate_url" /\ call.done) =>
        /\ call.ret \in BOOLEAN
        /\ call.arg \in {Str(<<"h", "t", "t", "p", "s", ":", "/", "/", "e", "x", "a", "m", "p", "l", "e", ".", "c", "o", "m">>), Str(<<"h", "t", "t", "p", ":", "/", "/", "l", "o", "c", "a", "l", "h", "o", "s", "t", ":", "8", "0", "8", "0", "/", "p", "a", "t", "h">>), Str(<<"h", "t", "t", "p", "s", ":", "/", "/", "1", "9", "2", ".", "1", "6", "8", ".", "1", ".", "1">>)} => call.ret = TRUE
        /\ call.arg \in {Str(<<"f", "t", "p", ":", "/", "/", "x", ".", "c", "o", "m">>), Str(<<"n", "o", "t", " ", "a", " ", "u", "r", "l">>), Str(<<>>)} => call.ret = FALSE
        /\ call.arg.kind # "str" => call.ret = FALSE
\* validate_url has accepted http://localhost:8080/path
C20_Witness ==
    /\ call.fn = "validate_url" /\ call.done /\ call.ret = TRUE
    /\ call.arg = Local

\* C18: load_urls_from_json returns exactly {tutoriais: [], urls: []}, without
\* raising, when the file does not exist, is not well-formed JSON, or holds a
\* top-level value that is not a dict.
C18_LoaderDefault ==
    (/\ call.fn = "load_urls_from_json" /\ call.done
     /\ \/ call.arg.state \in {"missing", "malformed"}
        \/ call.arg.state = "json" /\ call.arg.value.kind # "dict")
    => /\ ~call.ret.raised
       /\ call.ret.data = [tutoriais |-> <<>>, urls |-> <<>>]
\* the loader has returned on a file that is not well-formed JSON
C18_Witness ==
    /\ call.fn = "load_urls_from_json" /\ call.done
    /\ call.arg.state = "malformed"

\* an entry the loader is to keep: a dict whose url the validator accepts
Kept(item) == item.kind = "dict" /\ item.url.kind = "str" /\ validate_url(item.url)
\* the entries under a top-level key
Listed(value) == IF value.kind = "list" THEN value.items ELSE <<>>
\* topicos of a kept entry: the list given, [] otherwise
Topicos(item) == IF item.topicos.kind = "list" THEN item.topicos ELSE List(<<>>)
Default(value, default) == IF value = Missing THEN default ELSE value

\* C19: for a file holding a dict, the tutorials and the urls returned are the
\* entries that are dicts with a url the validator accepts, in their order, each
\* with its four keys filled in (topicos = [] when missing or not a list);
\* no entry with the url javascript:alert(1) is returned.
C19_LoaderKeepsValidEntries ==
    (/\ call.fn = "load_urls_from_json" /\ call.done
     /\ call.arg.state = "json" /\ call.arg.value.kind = "dict")
    => LET tin == SelectSeq(Listed(call.arg.value.tutoriais), Kept)
           uin == SelectSeq(Listed(call.arg.value.urls), Kept)
           tout == call.ret.data.tutoriais
           uout == call.ret.data.urls
       IN
       /\ ~call.ret.raised
       /\ Len(tout) = Len(tin)
       /\ \A i \in 1..Len(tout) :
             /\ tout[i] = [titulo |-> Default(tin[i].titulo, Str(<<"S", "e", "m", " ", "t", "i", "t", "u", "l", "o">>)),
                           url |-> tin[i].url,
                           categoria |-> Default(tin[i].categoria, Str(<<>>)),
                           topicos |-> Topicos(tin[i])]
             /\ tout[i].url # Str(Javascript)
       /\ Len(uout) = Len(uin)
       /\ \A i \in 1..Len(uout) :
             /\ uout[i] = [url |-> uin[i].url,
                           descricao |-> Default(uin[i].descricao, Str(<<>>)),
                           categoria |-> Default(uin[i].categoria, Str(<<>>)),
                           topicos |-> Topicos(uin[i])]
             /\ uout[i].url # Str(Javascript)
\* of two tutorials, the one with the url javascript:alert(1) was dropped and
\* the one without topicos was kept, with topicos = []
C19_Witness ==
    /\ call.fn = "load_urls_from_json" /\ call.done /\ call.arg.state = "json"
    /\ call.arg.value.kind = "dict" /\ call.arg.value.tutoriais.kind = "list"
    /\ LET items == call.arg.value.tutoriais.items IN
       /\ Len(items) = 2
       /\ items[1].kind = "dict" /\ items[1].url = Str(Javascript)
       /\ items[2].kind = "dict" /\ items[2].topicos = Missing
       /\ Len(call.ret.data.tutoriais) = 1
       /\ call.ret.data.tutoriais[1].url = items[2].url
       /\ call.ret.data.tutoriais[1].topicos = List(<<>>)

\* the entries of c that have not expired at now, as get and _clean_expired judge it
Fresh(c, now) == clean_expired(c, now)

\* C28: a set(url, text) for a URL that is in the cache and has not expired
\* replaces that entry only: no other unexpired entry leaves the cache and
\* the number of unexpired entries does not go down, also on a full cache.
C28_SetReplacesOnlyItsEntry ==
    [][\A url \in URLS :
          (/\ last'.op = "set" /\ last'.url = url /\ ~last'.raised
           /\ \E content \in Contents : Set(url, content)
           /\ url \in Keys(Fresh(cache, clock)))
          => /\ Keys(Fresh(cache, clock)) \subseteq Keys(cache')
             /\ Len(cache') >= Len(Fresh(cache, clock))]_vars

\* C29: once set(url, text) has returned, url is the most recently used
\* entry, the last one the eviction would take, whether it was in the cache
\* before the call or not.
C29_SetMakesMostRecent ==
    (last.op = "set" /\ ~last.raised)
        => (cache # <<>> /\ cache[Len(cache)].url = last.url)

\* C27: a call of the URL-content tool whose url argument is not a
\* well-formed HTTP(S) URL attempts no retrieval and ends with the error
\* status, never with the success status and a text as content.
C27_BadUrlIsAnError ==
    (call.fn = "buscar_conteudo_url" /\ ~validate_url(call.arg))
        => (call.done => (~call.attempted /\ call.ret.status = "error"))

\* the cache without the entry of url if that entry has expired at now
WithoutExpired(c, url, now) ==
    IF url \in Keys(c) /\ now > Entry(c, url).expires_at THEN Remove(c, url) ELSE c

\* C30: a fetch that ends in a failure leaves the entries of the cache and
\* their order as it found them, but for the expired entry of its own URL,
\* which its cache check removes; the diagnostic it returns is in no entry.
C30_FailedFetchStoresNothing ==
    [][\A url \in URLS :
          (/\ last'.op = "fetch_failed" /\ last'.url = url
           /\ \E max_length \in 1..MaxLen, exc \in Exceptions :
                 FailedFetch("t1", url, max_length, exc))
          => /\ cache' = WithoutExpired(cache, url, clock)
             /\ \A e \in Range(cache') : e.content # last'.ret.text]_vars

\* a call of search_documentation has returned a result list
Searched == call.fn = "search_documentation" /\ call.done /\ ~call.ret.raised
\* the tutorials the call loaded
Loaded == get_tutorials(call.arg.repo, call.arg.category)
\* what the knowledge-base pass, the tutorial pass and the document pass of
\* the call produced, one pass after the other
KbPass == knowledge_base(lower(call.arg.query), call.arg.category)
TutorialPass == tutorial_pass(Loaded, lower(call.arg.query), {}).results
DocumentPass == document_pass(call.arg.repo, lower(call.arg.query), call.arg.category).results
Produced == KbPass \o TutorialPass \o DocumentPass
\* two results with the same kind, the same title and the same URL (no URL
\* counting as the empty one)
SameKey(r1, r2) ==
    /\ r1.tipo = r2.tipo
    /\ r1.titulo = r2.titulo
    /\ (IF r1.url.present THEN r1.url.text ELSE <<>>)
           = (IF r2.url.present THEN r2.url.text ELSE <<>>)
\* the results of s that no earlier result of s shares its key with, in order
FirstOfKey(s) ==
    LET first == {i \in 1..Len(s) : \A j \in 1..(i - 1) : ~SameKey(s[j], s[i])}
        RECURSIVE pick(_)
        pick(i) == IF i > Len(s) THEN <<>>
                   ELSE IF i \in first THEN <<s[i]>> \o pick(i + 1) ELSE pick(i + 1)
    IN pick(1)

\* C21: a search returns at most 10 results; when at least 10 results with
\* distinct keys match, it returns exactly 10, the first 10 of them in the
\* order of the passes.
C21_AtMostTenResults ==
    Searched =>
        LET unique == FirstOfKey(Produced) IN
        /\ Len(call.ret.results) <= 10
        /\ Len(unique) >= 10 => call.ret.results = SubSeq(unique, 1, 10)
\* 15 topics or more of the knowledge base match and 10 results come back
C21_Witness ==
    /\ Searched
    /\ LET kb == KbPass IN Cardinality({i \in 1..Len(kb) : kb[i].tipo = "topico"}) >= 15
    /\ Len(call.ret.results) = 10

\* the position in s of the first result that has the key of r
FirstWithKey(s, r) == CHOOSE i \in 1..Len(s) : SameKey(s[i], r) /\ \A j \in 1..(i - 1) : ~SameKey(s[j], r)

\* C22: no two results of a search have the same kind, title and URL (no
\* URL counting as the empty one); of the results the three passes produce
\* with one key, the first produced is the one returned.
C22_UniqueKeys ==
    Searched =>
        LET results == call.ret.results
            produced == Produced
        IN
        /\ \A i, j \in 1..Len(results) : i # j => ~SameKey(results[i], results[j])
        /\ \A i \in 1..Len(results) :
              /\ \E k \in 1..Len(produced) : SameKey(produced[k], results[i])
              /\ results[i] = produced[FirstWithKey(produced, results[i])]
\* the passes produced two results of one key in two categories, and the
\* first of them was returned
C22_Witness ==
    /\ Searched
    /\ LET produced == Produced IN
       \E i, j \in 1..Len(produced) :
          /\ i < j
          /\ SameKey(produced[i], produced[j])
          /\ produced[i].categoria # produced[j].categoria
          /\ \E k \in 1..Len(call.ret.results) : call.ret.results[k] = produced[i]

\* a tutorial whose title and topics are str and that matches the query
Matches(t, query) == ~lower_raises(t) /\ tutorial_matches(t, lower(query))

\* C23: no two tutorial results of a search have the same URL, whether the
\* tutorials come from one urls.json or from two, under one title or two:
\* only the first loaded tutorial of a URL that matches is returned.
C23_OneTutorialPerUrl ==
    Searched =>
        LET results == call.ret.results
            matching == SelectSeq(Loaded, LAMBDA t : Matches(t, call.arg.query))
        IN
        /\ \A i, j \in 1..Len(results) :
              (i # j /\ results[i].tipo = "tutorial" /\ results[j].tipo = "tutorial")
                  => results[i].url # results[j].url
        /\ \A i \in 1..Len(results) :
              results[i].tipo = "tutorial"
                  => \E k \in 1..Len(matching) :
                        /\ matching[k].url.text = results[i].url.text
                        /\ matching[k].titulo.text = results[i].titulo
                        /\ \A j \in 1..(k - 1) : matching[j].url # matching[k].url
\* two tutorials of two files, with two titles and one URL, match the query,
\* and a tutorial is returned
C23_Witness ==
    /\ Searched
    /\ LET loaded == Loaded IN
       \E i, j \in 1..Len(loaded) :
          /\ i # j
          /\ loaded[i].url = loaded[j].url
          /\ loaded[i].titulo # loaded[j].titulo
          /\ loaded[i].categoria # loaded[j].categoria
          /\ Matches(loaded[i], call.arg.query)
          /\ Matches(loaded[j], call.arg.query)
    /\ ~truthy(call.arg.category)
    /\ call.arg.repo.tutoriais[Maquinario].state = "json"
    /\ call.arg.repo.tutoriais[Beneficiarios].state = "json"
    /\ Len(load_urls_from_json(call.arg.repo.tutoriais[Beneficiarios]).data.tutoriais) = 1
    /\ Len(load_urls_from_json(call.arg.repo.tutoriais[Maquinario]).data.tutoriais) = 1
    /\ \E k \in 1..Len(call.ret.results) : call.ret.results[k].tipo = "tutorial"

\* the pass a result comes from: 1 knowledge base, 2 tutorials, 3 documents
PassOf(result) ==
    CASE result.fonte = "base_conhecimento" -> 1
      [] result.fonte = "tutoriais" -> 2
      [] result.fonte = "documentos_md" -> 3

\* C24: in the list a search returns, the knowledge-base results come before
\* the tutorial results, which come before the document results; topics,
\* common issues and tutorials have relevance high, documents medium.
C24_PassOrderAndRelevance ==
    Searched =>
        LET results == call.ret.results IN
        /\ \A i, j \in 1..Len(results) : i < j => PassOf(results[i]) <= PassOf(results[j])
        /\ \A i \in 1..Len(results) :
              /\ results[i].tipo \in {"topico", "problema_comum"}
                    <=> results[i].fonte = "base_conhecimento"
              /\ results[i].tipo = "tutorial" <=> results[i].fonte = "tutoriais"
              /\ results[i].tipo = "documento" <=> results[i].fonte = "documentos_md"
              /\ results[i].relevancia
                    = (IF results[i].tipo = "documento" THEN "media" ELSE "alta")
\* a topic, a common issue, a tutorial and a document are returned together
C24_Witness ==
    /\ Searched
    /\ \A tipo \in {"topico", "problema_comum", "tutorial", "documento"} :
          \E i \in 1..Len(call.ret.results) : call.ret.results[i].tipo = tipo

\* C25: when a search is given a category, every result it returns, of
\* every kind, carries that category in its category field.
C25_ResultsOfTheCategory ==
    (Searched /\ truthy(call.arg.category))
        => \A i \in 1..Len(call.ret.results) :
              call.ret.results[i].categoria = call.arg.category

\* the titles and topics of the tutorials the call loads are all str
TextTutorials == LET loaded == Loaded IN \A i \in 1..Len(loaded) : ~lower_raises(loaded[i])

\* C26: a search never raises: a failure of the filesystem in the tutorial
\* pass or in the document pass (a documentation directory, a category
\* directory or a file that is missing or cannot be read) adds no result and
\* the search returns, with a category and without one.
C26_SearchNeverRaises ==
    (call.fn = "search_documentation" /\ call.done /\ TextTutorials)
        => ~call.ret.raised

====
